---- MODULE Spec2Model ----
(***************************************************************************)
(* A model of mmflow/apis/train.py: set_random_seed and train_model.       *)
(*                                                                         *)
(* train_model is one synchronous call.  It is modelled as a sequence of   *)
(* steps (pc) over the configuration object cfg, the locals the later      *)
(* steps read, and a log (calls) of the calls made on the runner and on    *)
(* build_runner.  Python values are encoded as follows:                    *)
(*   - a dict is a function from key strings to values;                    *)
(*   - an optional dict is [isNone, d];                                    *)
(*   - a value whose Python type matters (custom_hooks, its items) carries *)
(*     its type in a field (kind, isDict);                                 *)
(*   - a path that is None or '' is the empty string (both are falsy).     *)
(* Collaborators (builders, hook constructors, runner methods) are outside *)
(* this file; a call to one either returns or raises.                      *)
(***************************************************************************)
EXTENDS Integers, Sequences, FiniteSets, TLC

VARIABLES
    cfg,              \* the Config object passed to train_model
    cfg0,             \* history: cfg as it was when train_model was called
    distributed,      \* argument distributed
    validate,         \* argument validate
    pc,               \* position of train_model
    raised,           \* the exception that ended the call, and the step raising it
    warned,           \* number of warnings.warn calls
    calls,            \* log: build_runner and runner method calls, in call order
    val_dataset,      \* local val_dataset
    val_dataloader,   \* local val_dataloader
    hooks_built,      \* log: the arguments of build_from_cfg, with the item index
    i,                \* position of the loop over cfg.custom_hooks
    py_state,         \* state of Python's random module
    np_state,         \* state of numpy.random
    torch_state,      \* state of torch's CPU generator
    cuda_state,       \* state of each CUDA device's generator
    cudnn,            \* torch.backends.cudnn: [deterministic, benchmark]
    lastOp,           \* history: the last operation on the random state
    repeat            \* history: length of the current run of identical set_random_seed calls

trainVars == <<cfg, cfg0, distributed, validate, pc, raised, warned, calls,
               val_dataset, val_dataloader, hooks_built, i>>
seedVars == <<py_state, np_state, torch_state, cuda_state, cudnn, lastOp, repeat>>
vars == <<trainVars, seedVars>>

(***************************************************************************)
(* Bounds of the model.                                                    *)
(***************************************************************************)
MaxHooks == 2      \* longest cfg.custom_hooks list
MaxVal == 2        \* most datasets in cfg.data.val.datasets
MaxSeed == 2       \* largest seed
StateSpace == 3    \* number of states of a random generator
NumGpus == 1       \* number of CUDA devices

(***************************************************************************)
(* Python dicts.                                                           *)
(***************************************************************************)
EmptyDict == [k \in {} |-> ""]

HasKey(d, k) == k \in DOMAIN d

DictGet(d, k, default) == IF k \in DOMAIN d THEN d[k] ELSE default

DictSet(d, k, v) == [x \in (DOMAIN d) \cup {k} |-> IF x = k THEN v ELSE d[x]]

DictPop(d, k) == [x \in (DOMAIN d) \ {k} |-> d[x]]

DictMerge(a, b) ==
    [x \in (DOMAIN a) \cup (DOMAIN b) |-> IF x \in DOMAIN b THEN b[x] ELSE a[x]]

None == [isNone |-> TRUE, d |-> EmptyDict]

Some(d) == [isNone |-> FALSE, d |-> d]

\* bool(x) of a sized Python value: None and empty containers are falsy
Truthy(v) == v.kind # "NoneType" /\ Len(v.items) > 0

NoException == [exc |-> "none", at |-> "none"]

(***************************************************************************)
(* The inputs of train_model.                                              *)
(***************************************************************************)
BoundedSeq(S, n) == UNION {[1..k -> S] : k \in 0..n}

RunnerValues ==
    { None,
      Some([type |-> "IterBasedRunner", max_iters |-> "100k"]),
      Some([type |-> "EpochBasedRunner", max_epochs |-> "24"]),
      Some([max_iters |-> "100k"]) }

Fp16Values == { None, Some([loss_scale |-> "dynamic"]) }

OptimizerConfigValues ==
    { [grad_clip |-> "clip"],
      [type |-> "GradientCumulativeOptimizerHook", grad_clip |-> "clip"] }

ValNames == <<"Sintel", "KITTI2015", "FlyingChairs", "FlyingThings3D">>

ValDatasets(n) == [k \in 1..n |-> [type |-> ValNames[k]]]

ValValues ==
    LET base(n) == [type |-> "ConcatVal", datasets |-> ValDatasets(n)]
    IN  {base(n) : n \in 1..MaxVal}
          \cup {DictSet(base(n), "separate_eval", TRUE) : n \in 1..MaxVal}
          \cup {DictSet(base(1), "separate_eval", FALSE)}

EvaluationValues ==
    { None,
      Some([interval |-> "5000"]),
      Some([interval |-> "5000", by_epoch |-> TRUE]),
      Some([interval |-> "5000", by_epoch |-> FALSE]) }

HookItems ==
    { [isDict |-> TRUE, d |-> [type |-> "HookA", priority |-> "HIGH"]],
      [isDict |-> TRUE, d |-> [type |-> "HookB"]],
      [isDict |-> FALSE, d |-> EmptyDict] }

\* the lists of hook items; the loop stops at the first item that is not a
\* dict, so the items after it are never read and are left out
HookLists ==
    {s \in BoundedSeq(HookItems, MaxHooks) : \A k \in 1..(Len(s) - 1) : s[k].isDict}

CustomHooksValues ==
    { [kind |-> "NoneType", items |-> <<>>],
      [kind |-> "str", items |-> <<>>],
      [kind |-> "str", items |-> <<[isDict |-> FALSE, d |-> EmptyDict]>>] }
      \cup {[kind |-> "list", items |-> s] : s \in HookLists}

ResumeValues == {"", "work_dir/latest.pth"}

LoadValues == {"", "pretrained.pth"}

ConfigValues ==
    [ runner : RunnerValues,
      total_iters : {"300k"},
      fp16 : Fp16Values,
      optimizer_config : OptimizerConfigValues,
      val : ValValues,
      evaluation : EvaluationValues,
      custom_hooks : CustomHooksValues,
      resume_from : ResumeValues,
      load_from : LoadValues ]

NoValue == [isList |-> FALSE, items |-> <<>>]

\* the random state of a process in which set_random_seed has not run
SeedIdle ==
    /\ py_state = 0
    /\ np_state = 0
    /\ torch_state = 0
    /\ cuda_state = [g \in 1..NumGpus |-> 0]
    /\ cudnn = [deterministic |-> FALSE, benchmark |-> FALSE]
    /\ lastOp = [op |-> "init", seed |-> 0, deterministic |-> FALSE]
    /\ repeat = 0

\* the fields that only lines 126-155 read, when validate is false
ValidationUnread(c) ==
    /\ c.val = [type |-> "ConcatVal", datasets |-> ValDatasets(1)]
    /\ c.evaluation = Some([interval |-> "5000"])

Init ==
    /\ cfg \in ConfigValues
    /\ cfg0 = cfg
    /\ distributed \in BOOLEAN
    /\ validate \in BOOLEAN
    /\ validate \/ ValidationUnread(cfg)
    /\ pc = "prepare"
    /\ raised = NoException
    /\ warned = 0
    /\ calls = <<>>
    /\ val_dataset = NoValue
    /\ val_dataloader = NoValue
    /\ hooks_built = <<>>
    /\ i = 1
    /\ SeedIdle

(***************************************************************************)
(* train_model: the decisions it takes, as operators.                      *)
(***************************************************************************)
\* faulty variant: runner.run is called before the state is restored
NextPhase_RunBeforeRestore(p) ==
    CASE p = "prepare"        -> "build_runner"
      [] p = "build_runner"   -> "training_hooks"
      [] p = "training_hooks" -> "eval_hook"
      [] p = "eval_hook"      -> "custom_hooks"
      [] p = "custom_hooks"   -> "custom_loop"
      [] p = "custom_loop"    -> "run"
      [] p = "run"            -> "restore"
      [] p = "restore"        -> "done"

\* the statements of train_model in source order
NextPhase(p) ==
    CASE p = "prepare"        -> "build_runner"
      [] p = "build_runner"   -> "training_hooks"
      [] p = "training_hooks" -> "eval_hook"
      [] p = "eval_hook"      -> "custom_hooks"
      [] p = "custom_hooks"   -> "custom_loop"
      [] p = "custom_loop"    -> "restore"
      [] p = "restore"        -> "run"
      [] p = "run"            -> "done"

Call(op, site, arg, priority) ==
    [op |-> op, site |-> site, arg |-> arg, priority |-> priority]

\* cfg.get('runner') is None
RunnerAbsent(c) == c.runner.isNone

\* faulty variant: the default runner is epoch based
DefaultRunner_EpochBased(c) == [type |-> "EpochBasedRunner", max_epochs |-> c.total_iters]

DefaultRunner(c) == [type |-> "IterBasedRunner", max_iters |-> c.total_iters]

\* whether the fp16 setting makes train_model construct a hook object
ConstructsOptimizerHook(c, dist) ==
    \/ ~c.fp16.isNone
    \/ dist /\ ~HasKey(c.optimizer_config, "type")

\* faulty variant: the 'type' key of optimizer_config is not looked at
SelectOptimizerHook_TypeIgnored(c, dist) ==
    IF ~c.fp16.isNone
    THEN [cls |-> "Fp16OptimizerHook",
          kwargs |-> DictMerge(c.optimizer_config, c.fp16.d),
          distributed |-> dist]
    ELSE IF dist
    THEN [cls |-> "OptimizerHook", kwargs |-> c.optimizer_config, distributed |-> dist]
    ELSE [cls |-> "config", kwargs |-> c.optimizer_config, distributed |-> dist]

SelectOptimizerHook(c, dist) ==
    IF ~c.fp16.isNone
    THEN [cls |-> "Fp16OptimizerHook",
          kwargs |-> DictMerge(c.optimizer_config, c.fp16.d),
          distributed |-> dist]
    ELSE IF dist /\ ~HasKey(c.optimizer_config, "type")
    THEN [cls |-> "OptimizerHook", kwargs |-> c.optimizer_config, distributed |-> dist]
    ELSE [cls |-> "config", kwargs |-> c.optimizer_config, distributed |-> dist]

build_dataset(spec, test_mode) == [spec |-> spec, test_mode |-> test_mode]

build_dataloader(ds, dist) == [dataset |-> ds, dist |-> dist]

dataset_name(ds) == ds.spec["type"]

SeparateEval(c) == DictGet(c.val, "separate_eval", FALSE)

BuildValDataset(c) ==
    IF SeparateEval(c)
    THEN [isList |-> TRUE,
          items |-> [k \in 1..Len(c.val["datasets"]) |->
                        build_dataset(c.val["datasets"][k], FALSE)]]
    ELSE [isList |-> FALSE, items |-> <<build_dataset(c.val, TRUE)>>]

BuildValDataloader(ds, dist) ==
    [isList |-> ds.isList,
     items |-> [k \in 1..Len(ds.items) |-> build_dataloader(ds.items[k], dist)]]

ValDatasetName(ds) ==
    [isList |-> ds.isList,
     items |-> [k \in 1..Len(ds.items) |-> dataset_name(ds.items[k])]]

\* eval_cfg = cfg.get('evaluation', {})
EvalCfg(c) == IF c.evaluation.isNone THEN EmptyDict ELSE c.evaluation.d

\* faulty variant: a by_epoch in the evaluation configuration is kept (setdefault)
ByEpoch_UserValueKept(c) ==
    DictGet(IF c.evaluation.isNone THEN EmptyDict ELSE c.evaluation.d, "by_epoch",
            c.runner.d["type"] # "IterBasedRunner")

ByEpoch(c) == c.runner.d["type"] # "IterBasedRunner"

\* eval_cfg is cfg.evaluation itself when the key is there: the store to
\* eval_cfg['by_epoch'] is a store into cfg
EvaluationAfter(c, eval_cfg) ==
    IF c.evaluation.isNone THEN c ELSE [c EXCEPT !.evaluation = Some(eval_cfg)]

\* faulty variant: the two hook classes are swapped
EvalHookClass_Swapped(dist) == IF dist THEN "EvalHook" ELSE "DistEvalHook"

EvalHookClass(dist) == IF dist THEN "DistEvalHook" ELSE "EvalHook"

EvalHook(dist, loader, eval_cfg, name) ==
    [cls |-> EvalHookClass(dist), dataloader |-> loader,
     kwargs |-> eval_cfg, dataset_name |-> name]

\* if cfg.get('custom_hooks', None):
CustomHooksGiven(c) == Truthy(c.custom_hooks)

IsList(v) == v.kind = "list"

\* faulty variant: the items are not checked
IsDict_Unchecked(item) == TRUE

IsDict(item) == item.isDict

\* faulty variant: no copy, the pop acts on cfg's item
ItemAfterPop_NoCopy(item) == [item EXCEPT !.d = DictPop(@, "priority")]

\* hook_cfg = hook_cfg.copy(): the pop below acts on the copy, not on cfg's item
ItemAfterPop(item) == item

\* faulty variant: the default priority is LOW
HookPriority_DefaultLow(hook_cfg) == DictGet(hook_cfg, "priority", "LOW")

HookPriority(hook_cfg) == DictGet(hook_cfg, "priority", "NORMAL")

HookCfg(hook_cfg) == DictPop(hook_cfg, "priority")

build_from_cfg(hook_cfg) == [built_from |-> hook_cfg]

\* faulty variant: if in place of elif
RestoreCalls_NoElse(c) ==
    (IF c.resume_from # "" THEN <<Call("resume", "", c.resume_from, "")>> ELSE <<>>)
      \o (IF c.load_from # "" THEN <<Call("load_checkpoint", "", c.load_from, "")>> ELSE <<>>)

RestoreCalls(c) ==
    IF c.resume_from # ""
    THEN <<Call("resume", "", c.resume_from, "")>>
    ELSE IF c.load_from # ""
    THEN <<Call("load_checkpoint", "", c.load_from, "")>>
    ELSE <<>>

(***************************************************************************)
(* train_model: its steps.                                                 *)
(***************************************************************************)
\* an exception leaves train_model: nothing catches it
Abort(exc) ==
    /\ pc' = "aborted"
    /\ raised' = [exc |-> exc, at |-> pc]

Continue ==
    /\ pc' = NextPhase(pc)
    /\ UNCHANGED raised

\* logger, data loaders, model wrapper, optimizer, then the runner default
Prepare ==
    /\ pc = "prepare"
    /\ \/ /\ Abort("CollaboratorError")
          /\ UNCHANGED <<cfg, warned>>
       \/ /\ RunnerAbsent(cfg)
          /\ cfg' = [cfg EXCEPT !.runner = Some(DefaultRunner(cfg))]
          /\ warned' = warned + 1
          /\ Continue
       \/ /\ ~RunnerAbsent(cfg)
          /\ UNCHANGED <<cfg, warned>>
          /\ Continue
    /\ UNCHANGED <<cfg0, distributed, validate, calls,
                   val_dataset, val_dataloader, hooks_built, i, seedVars>>

BuildRunner ==
    /\ pc = "build_runner"
    /\ calls' = Append(calls, Call("build_runner", "", cfg.runner.d, ""))
    /\ \/ Continue
       \/ Abort("CollaboratorError")
    /\ UNCHANGED <<cfg, cfg0, distributed, validate, warned,
                   val_dataset, val_dataloader, hooks_built, i, seedVars>>

RegisterTrainingHooks ==
    /\ pc = "training_hooks"
    /\ \/ /\ ConstructsOptimizerHook(cfg, distributed)
          /\ Abort("CollaboratorError")
          /\ UNCHANGED calls
       \/ /\ calls' = Append(calls, Call("register_training_hooks", "",
                                         SelectOptimizerHook(cfg, distributed), ""))
          /\ \/ Continue
             \/ Abort("CollaboratorError")
    /\ UNCHANGED <<cfg, cfg0, distributed, validate, warned,
                   val_dataset, val_dataloader, hooks_built, i, seedVars>>

RegisterEvalHook ==
    /\ pc = "eval_hook"
    /\ \/ /\ ~validate
          /\ Continue
          /\ UNCHANGED <<cfg, calls, val_dataset, val_dataloader>>
       \/ /\ validate
          /\ Abort("CollaboratorError")
          /\ UNCHANGED <<cfg, calls, val_dataset, val_dataloader>>
       \/ /\ validate
          /\ val_dataset' = BuildValDataset(cfg)
          /\ val_dataloader' = BuildValDataloader(BuildValDataset(cfg), distributed)
          /\ \/ /\ ~HasKey(cfg.runner.d, "type")
                /\ Abort("KeyError")
                /\ UNCHANGED <<cfg, calls>>
             \/ /\ HasKey(cfg.runner.d, "type")
                /\ LET eval_cfg == DictSet(EvalCfg(cfg), "by_epoch", ByEpoch(cfg))
                       hook == EvalHook(distributed, val_dataloader', eval_cfg,
                                        ValDatasetName(val_dataset'))
                   IN  /\ cfg' = EvaluationAfter(cfg, eval_cfg)
                       /\ \/ /\ Abort("CollaboratorError")
                             /\ UNCHANGED calls
                          \/ /\ calls' = Append(calls,
                                                Call("register_hook", "eval", hook, "LOW"))
                             /\ Continue
    /\ UNCHANGED <<cfg0, distributed, validate, warned, hooks_built, i, seedVars>>

CustomHooksCheck ==
    /\ pc = "custom_hooks"
    /\ \/ /\ ~CustomHooksGiven(cfg)
          /\ pc' = NextPhase("custom_loop")
          /\ UNCHANGED raised
       \/ /\ CustomHooksGiven(cfg)
          /\ IsList(cfg.custom_hooks)
          /\ Continue
       \/ /\ CustomHooksGiven(cfg)
          /\ ~IsList(cfg.custom_hooks)
          /\ Abort("AssertionError")
    /\ UNCHANGED <<cfg, cfg0, distributed, validate, warned, calls,
                   val_dataset, val_dataloader, hooks_built, i, seedVars>>

CustomHookItem ==
    /\ pc = "custom_loop"
    /\ LET item == cfg.custom_hooks.items[i]
       IN  \/ /\ ~IsDict(item)
              /\ Abort("AssertionError")
              /\ UNCHANGED <<cfg, hooks_built, calls, i>>
           \/ /\ IsDict(item)
              /\ cfg' = [cfg EXCEPT !.custom_hooks.items[i] = ItemAfterPop(item)]
              /\ hooks_built' = Append(hooks_built, [index |-> i, cfg |-> HookCfg(item.d)])
              /\ \/ /\ Abort("CollaboratorError")
                    /\ UNCHANGED <<calls, i>>
                 \/ /\ calls' = Append(calls,
                                       Call("register_hook", "custom",
                                            build_from_cfg(HookCfg(item.d)),
                                            HookPriority(item.d)))
                    /\ i' = i + 1
                    /\ pc' = IF i = Len(cfg.custom_hooks.items) THEN NextPhase(pc) ELSE pc
                    /\ UNCHANGED raised
    /\ UNCHANGED <<cfg0, distributed, validate, warned,
                   val_dataset, val_dataloader, seedVars>>

Restore ==
    /\ pc = "restore"
    /\ calls' = calls \o RestoreCalls(cfg)
    /\ \/ Continue
       \/ /\ RestoreCalls(cfg) # <<>>
          /\ Abort("CollaboratorError")
    /\ UNCHANGED <<cfg, cfg0, distributed, validate, warned,
                   val_dataset, val_dataloader, hooks_built, i, seedVars>>

Run ==
    /\ pc = "run"
    /\ calls' = Append(calls, Call("run", "", "workflow", ""))
    /\ \/ Continue
       \/ Abort("CollaboratorError")
    /\ UNCHANGED <<cfg, cfg0, distributed, validate, warned,
                   val_dataset, val_dataloader, hooks_built, i, seedVars>>

Next ==
    \/ Prepare
    \/ BuildRunner
    \/ RegisterTrainingHooks
    \/ RegisterEvalHook
    \/ CustomHooksCheck
    \/ CustomHookItem
    \/ Restore
    \/ Run

Spec == Init /\ [][Next]_vars

(***************************************************************************)
(* set_random_seed, and the generators it seeds.                           *)
(*                                                                         *)
(* A generator is a value in 0..StateSpace-1; seeding sets it to a         *)
(* function of the seed alone and a draw advances it.  The process may     *)
(* have drawn numbers and set the cudnn flags before a call.               *)
(***************************************************************************)
Seeded(seed) == seed % StateSpace

Advance(state) == (state + 1) % StateSpace

\* faulty variant: benchmark is toggled
CudnnAfter_BenchmarkToggled(flags, deterministic) ==
    IF deterministic
    THEN [deterministic |-> TRUE, benchmark |-> ~flags.benchmark]
    ELSE flags

\* if deterministic: cudnn.deterministic = True; cudnn.benchmark = False
CudnnAfter(flags, deterministic) ==
    IF deterministic
    THEN [deterministic |-> TRUE, benchmark |-> FALSE]
    ELSE flags

randomState == <<py_state, np_state, torch_state, cuda_state, cudnn>>

\* train_model is not running
TrainIdle ==
    /\ cfg = [ runner |-> None, total_iters |-> "300k", fp16 |-> None,
               optimizer_config |-> [grad_clip |-> "clip"],
               val |-> [type |-> "ConcatVal", datasets |-> ValDatasets(1)],
               evaluation |-> None,
               custom_hooks |-> [kind |-> "NoneType", items |-> <<>>],
               resume_from |-> "", load_from |-> "" ]
    /\ cfg0 = cfg
    /\ distributed = FALSE
    /\ validate = FALSE
    /\ pc = "not_called"
    /\ raised = NoException
    /\ warned = 0
    /\ calls = <<>>
    /\ val_dataset = NoValue
    /\ val_dataloader = NoValue
    /\ hooks_built = <<>>
    /\ i = 1

InitSeed ==
    /\ TrainIdle
    /\ py_state \in 0..(StateSpace - 1)
    /\ np_state \in 0..(StateSpace - 1)
    /\ torch_state \in 0..(StateSpace - 1)
    /\ cuda_state \in [1..NumGpus -> 0..(StateSpace - 1)]
    /\ cudnn \in [deterministic : BOOLEAN, benchmark : BOOLEAN]
    /\ lastOp = [op |-> "init", seed |-> 0, deterministic |-> FALSE]
    /\ repeat = 0

SetRandomSeed(seed, deterministic) ==
    /\ py_state' = Seeded(seed)
    /\ np_state' = Seeded(seed)
    /\ torch_state' = Seeded(seed)
    /\ cuda_state' = [g \in 1..NumGpus |-> Seeded(seed)]
    /\ cudnn' = CudnnAfter(cudnn, deterministic)
    /\ lastOp' = [op |-> "set_random_seed", seed |-> seed, deterministic |-> deterministic]
    /\ repeat' = IF lastOp' # lastOp THEN 1 ELSE IF repeat < 2 THEN repeat + 1 ELSE repeat
    /\ UNCHANGED trainVars

Drawn ==
    /\ lastOp' = [op |-> "draw", seed |-> 0, deterministic |-> FALSE]
    /\ repeat' = 0
    /\ UNCHANGED trainVars

DrawRandom ==
    /\ py_state' = Advance(py_state)
    /\ Drawn
    /\ UNCHANGED <<np_state, torch_state, cuda_state, cudnn>>

DrawNumpy ==
    /\ np_state' = Advance(np_state)
    /\ Drawn
    /\ UNCHANGED <<py_state, torch_state, cuda_state, cudnn>>

DrawTorch ==
    /\ torch_state' = Advance(torch_state)
    /\ Drawn
    /\ UNCHANGED <<py_state, np_state, cuda_state, cudnn>>

DrawCuda(g) ==
    /\ cuda_state' = [cuda_state EXCEPT ![g] = Advance(@)]
    /\ Drawn
    /\ UNCHANGED <<py_state, np_state, torch_state, cudnn>>

NextSeed ==
    \/ \E seed \in 0..MaxSeed, deterministic \in BOOLEAN : SetRandomSeed(seed, deterministic)
    \/ DrawRandom
    \/ DrawNumpy
    \/ DrawTorch
    \/ \E g \in 1..NumGpus : DrawCuda(g)

SpecSeed == InitSeed /\ [][NextSeed]_vars

(***************************************************************************)
(* Reading the log.                                                        *)
(***************************************************************************)
PhaseRank(p) ==
    CASE p = "prepare"        -> 1
      [] p = "build_runner"   -> 2
      [] p = "training_hooks" -> 3
      [] p = "eval_hook"      -> 4
      [] p = "custom_hooks"   -> 5
      [] p = "custom_loop"    -> 6
      [] p = "restore"        -> 7
      [] p = "run"            -> 8
      [] p = "done"           -> 9

\* where the call is, or where the exception that ended it was raised
Position == IF pc = "aborted" THEN raised.at ELSE pc

\* the call got past step p
Completed(p) == PhaseRank(Position) > PhaseRank(p)

CallsOf(op) == SelectSeq(calls, LAMBDA c : c.op = op)

HookCalls(site) == SelectSeq(calls, LAMBDA c : c.op = "register_hook" /\ c.site = site)

(***************************************************************************)
(* C1.  Exactly one optimizer hook value is passed to                      *)
(* register_training_hooks: the Fp16OptimizerHook when fp16 is in the      *)
(* configuration; the plain OptimizerHook when fp16 is absent, distributed *)
(* is true and optimizer_config has no 'type' key; the optimizer_config    *)
(* object itself in every other case.                                      *)
(***************************************************************************)
C1_OptimizerHookSelection ==
    LET regs == CallsOf("register_training_hooks")
        fp16 == ~cfg0.fp16.isNone
        typed == "type" \in DOMAIN cfg0.optimizer_config
    IN  /\ Len(regs) <= 1
        /\ Completed("training_hooks") => Len(regs) = 1
        /\ \A k \in 1..Len(regs) :
              LET h == regs[k].arg
              IN  /\ fp16 => h.cls = "Fp16OptimizerHook"
                  /\ (~fp16 /\ distributed /\ ~typed) => h.cls = "OptimizerHook"
                  /\ (~fp16 /\ ~(distributed /\ ~typed)) =>
                        (h.cls = "config" /\ h.kwargs = cfg0.optimizer_config)

C1_Witness ==
    /\ pc = "done"
    /\ cfg0.fp16.isNone /\ distributed /\ "type" \notin DOMAIN cfg0.optimizer_config
    /\ Len(CallsOf("register_training_hooks")) = 1
    /\ CallsOf("register_training_hooks")[1].arg.cls = "OptimizerHook"

(***************************************************************************)
(* C2.  At most one of runner.resume and runner.load_checkpoint is called: *)
(* resume(resume_from) alone when resume_from is set, whether or not       *)
(* load_from is set; load_checkpoint(load_from) alone when only load_from  *)
(* is set; neither when neither is set.                                    *)
(***************************************************************************)
C2_RestoreExclusive ==
    LET r == CallsOf("resume")
        l == CallsOf("load_checkpoint")
    IN  /\ Len(r) + Len(l) <= 1
        /\ cfg0.resume_from # "" =>
              /\ Len(l) = 0
              /\ Completed("restore") => (Len(r) = 1 /\ r[1].arg = cfg0.resume_from)
        /\ (cfg0.resume_from = "" /\ cfg0.load_from # "") =>
              /\ Len(r) = 0
              /\ Completed("restore") => (Len(l) = 1 /\ l[1].arg = cfg0.load_from)
        /\ (cfg0.resume_from = "" /\ cfg0.load_from = "") => (Len(r) = 0 /\ Len(l) = 0)

C2_Witness ==
    /\ pc = "done"
    /\ cfg0.resume_from # "" /\ cfg0.load_from # ""
    /\ Len(CallsOf("resume")) = 1
    /\ Len(CallsOf("load_checkpoint")) = 0

(***************************************************************************)
(* C3.  custom_hooks validation.                                           *)
(***************************************************************************)
\* the items of cfg.custom_hooks that are not mappings
NonDictItems == {k \in 1..Len(cfg0.custom_hooks.items) : ~cfg0.custom_hooks.items[k].isDict}

\* custom_hooks has a value that is not a list, or is a list with an item that is no mapping
Malformed ==
    \/ cfg0.custom_hooks.kind \notin {"NoneType", "list"}
    \/ cfg0.custom_hooks.kind = "list" /\ NonDictItems # {}

\* the launch stopped before state restoration, and built nothing from a bad item
StoppedAtCustomHooks ==
    /\ pc \notin {"restore", "run", "done"}
    /\ Len(CallsOf("resume")) = 0
    /\ Len(CallsOf("load_checkpoint")) = 0
    /\ Len(CallsOf("run")) = 0
    /\ \A k \in 1..Len(hooks_built) : hooks_built[k].index \notin NonDictItems
    /\ (pc = "aborted" /\ raised.at = "custom_hooks") => raised.exc = "AssertionError"

\* C3 as stated: whenever custom_hooks is not a list, or is a list with an item
\* that is not a mapping, the launch aborts: no hook is built from the offending
\* item and neither state restoration nor runner.run is reached.
C3_AsStated == Malformed => StoppedAtCustomHooks

\* C3 as amended: the same, for a custom_hooks value that is truthy.  A falsy
\* value that is not a list (an empty string, an empty tuple, 0) is skipped like
\* an absent one and the launch goes on.
C3_MalformedAborts == (Malformed /\ Truthy(cfg0.custom_hooks)) => StoppedAtCustomHooks

C3_Witness ==
    /\ pc = "aborted"
    /\ raised = [exc |-> "AssertionError", at |-> "custom_loop"]
    /\ cfg0.custom_hooks.kind = "list"
    /\ Len(hooks_built) = 1
    /\ NonDictItems = {2}

(***************************************************************************)
(* C4.  For a custom_hooks list of N mappings, N hooks are built and       *)
(* registered, one per entry in list order, each built from its entry      *)
(* without the 'priority' key and registered at the entry's 'priority', or *)
(* at NORMAL when the entry has none.                                      *)
(***************************************************************************)
C4_CustomHooksRegistered ==
    LET items == cfg0.custom_hooks.items
        N == Len(items)
        regs == HookCalls("custom")
        rest(k) == [x \in (DOMAIN items[k].d) \ {"priority"} |-> items[k].d[x]]
    IN  (cfg0.custom_hooks.kind = "list" /\ NonDictItems = {}) =>
          /\ Len(hooks_built) <= N
          /\ Len(regs) <= Len(hooks_built)
          /\ \A k \in 1..Len(hooks_built) :
                hooks_built[k] = [index |-> k, cfg |-> rest(k)]
          /\ \A k \in 1..Len(regs) :
                /\ regs[k].arg = [built_from |-> rest(k)]
                /\ regs[k].priority = IF "priority" \in DOMAIN items[k].d
                                      THEN items[k].d["priority"]
                                      ELSE "NORMAL"
          /\ Completed("custom_loop") => (Len(hooks_built) = N /\ Len(regs) = N)

C4_Witness ==
    /\ pc = "done"
    /\ cfg0.custom_hooks.kind = "list"
    /\ Len(cfg0.custom_hooks.items) = 2
    /\ Len(HookCalls("custom")) = 2
    /\ HookCalls("custom")[1].priority = "NORMAL"
    /\ HookCalls("custom")[2].priority = "HIGH"

(***************************************************************************)
(* C5.  An evaluation hook is registered iff validate is true, once, at    *)
(* LOW priority, and it is DistEvalHook exactly when distributed is true.  *)
(* With separate_eval true and N validation datasets, N datasets and N     *)
(* loaders are built and the hook gets the list of the N dataset names in  *)
(* order; otherwise one dataset is built in test mode, with one loader,    *)
(* and the hook gets its single name.                                      *)
(***************************************************************************)
C5_EvalHookRegistered ==
    LET regs == HookCalls("eval")
        separate == "separate_eval" \in DOMAIN cfg0.val /\ cfg0.val["separate_eval"]
        specs == cfg0.val["datasets"]
    IN  /\ Len(regs) <= 1
        /\ ~validate => (Len(regs) = 0 /\ val_dataset = NoValue /\ val_dataloader = NoValue)
        /\ val_dataset # NoValue => Completed("training_hooks")
        /\ (validate /\ Completed("eval_hook")) => Len(regs) = 1
        /\ \A k \in 1..Len(regs) :
              LET h == regs[k].arg
              IN  /\ regs[k].priority = "LOW"
                  /\ h.cls = IF distributed THEN "DistEvalHook" ELSE "EvalHook"
                  /\ h.dataloader = val_dataloader
                  /\ Len(val_dataloader.items) = Len(val_dataset.items)
                  /\ \A n \in 1..Len(val_dataset.items) :
                        val_dataloader.items[n].dataset = val_dataset.items[n]
                  /\ separate =>
                        /\ val_dataset.isList /\ val_dataloader.isList
                        /\ Len(val_dataset.items) = Len(specs)
                        /\ \A n \in 1..Len(specs) : val_dataset.items[n].spec = specs[n]
                        /\ h.dataset_name =
                              [isList |-> TRUE,
                               items |-> [n \in 1..Len(specs) |-> specs[n]["type"]]]
                  /\ ~separate =>
                        /\ ~val_dataset.isList /\ ~val_dataloader.isList
                        /\ val_dataset.items = <<[spec |-> cfg0.val, test_mode |-> TRUE]>>
                        /\ h.dataset_name = [isList |-> FALSE, items |-> <<cfg0.val["type"]>>]

C5_Witness ==
    /\ pc = "done"
    /\ validate /\ distributed
    /\ DictGet(cfg0.val, "separate_eval", FALSE)
    /\ Len(cfg0.val["datasets"]) = 2
    /\ Len(HookCalls("eval")) = 1
    /\ HookCalls("eval")[1].arg.dataset_name = [isList |-> TRUE, items |-> <<"Sintel", "KITTI2015">>]

(***************************************************************************)
(* C6.  With cfg.runner absent the runner is built from                    *)
(* {type: 'IterBasedRunner', max_iters: cfg.total_iters} and the warning   *)
(* is emitted exactly once; with cfg.runner present the runner is built    *)
(* from the supplied spec unchanged and no warning is emitted.             *)
(***************************************************************************)
C6_RunnerDefaultFilled ==
    LET builds == CallsOf("build_runner")
        absent == cfg0.runner.isNone
    IN  /\ Len(builds) <= 1
        /\ Completed("build_runner") => Len(builds) = 1
        /\ warned <= 1
        /\ ~absent => warned = 0
        /\ (absent /\ Completed("prepare")) => warned = 1
        /\ \A k \in 1..Len(builds) :
              builds[k].arg = IF absent
                              THEN [type |-> "IterBasedRunner", max_iters |-> cfg0.total_iters]
                              ELSE cfg0.runner.d

C6_Witness ==
    /\ pc = "done"
    /\ cfg0.runner.isNone
    /\ warned = 1
    /\ CallsOf("build_runner")[1].arg["type"] = "IterBasedRunner"

(***************************************************************************)
(* C7.  What a call changes in the configuration object.                   *)
(***************************************************************************)
\* the runner field is filled only when it was absent
RunnerFrame ==
    IF cfg0.runner.isNone
    THEN cfg.runner \in {None, Some([type |-> "IterBasedRunner",
                                     max_iters |-> cfg0.total_iters])}
    ELSE cfg.runner = cfg0.runner

WithoutByEpoch(e) == [isNone |-> e.isNone, d |-> [x \in (DOMAIN e.d) \ {"by_epoch"} |-> e.d[x]]]

\* C7 as stated: when the call has returned, every field but runner is as it
\* was, the evaluation mapping and each custom_hooks entry included.
C7_AsStated ==
    pc = "done" =>
      /\ RunnerFrame
      /\ \A f \in (DOMAIN cfg0) \ {"runner"} : cfg[f] = cfg0[f]

\* C7 as amended: the call leaves every field but runner as it was, except that
\* with validate true and an evaluation mapping in the configuration the
\* mapping's 'by_epoch' key is set; its other keys, every other field and each
\* custom_hooks entry with its 'priority' key are as before the call.
C7_ConfigFrame ==
    /\ RunnerFrame
    /\ \A f \in (DOMAIN cfg0) \ {"runner", "evaluation"} : cfg[f] = cfg0[f]
    /\ WithoutByEpoch(cfg.evaluation) = WithoutByEpoch(cfg0.evaluation)
    /\ (~validate \/ PhaseRank(Position) < PhaseRank("eval_hook")) =>
          cfg.evaluation = cfg0.evaluation

C7_Witness ==
    /\ pc = "done"
    /\ validate
    /\ cfg.evaluation # cfg0.evaluation
    /\ cfg0.custom_hooks.kind = "list"
    /\ Len(HookCalls("custom")) = 2
    /\ cfg.custom_hooks = cfg0.custom_hooks
    /\ "priority" \in DOMAIN cfg.custom_hooks.items[1].d

(***************************************************************************)
(* C8.  The by_epoch value the evaluation hook receives is true unless the *)
(* runner type is 'IterBasedRunner', and then false: also when the runner  *)
(* spec was default-filled in this call (false), and whatever by_epoch the *)
(* evaluation configuration holds.                                         *)
(***************************************************************************)
C8_ByEpochFromRunner ==
    LET regs == HookCalls("eval")
    IN  /\ (validate /\ Completed("eval_hook")) => Len(regs) = 1
        /\ \A k \in 1..Len(regs) :
              LET kwargs == regs[k].arg.kwargs
              IN  /\ "by_epoch" \in DOMAIN kwargs
                  /\ kwargs["by_epoch"] =
                        IF cfg0.runner.isNone
                        THEN FALSE
                        ELSE cfg0.runner.d["type"] # "IterBasedRunner"

C8_Witness ==
    /\ pc = "done"
    /\ validate
    /\ cfg0.runner.isNone
    /\ ~cfg0.evaluation.isNone
    /\ DictGet(cfg0.evaluation.d, "by_epoch", FALSE)
    /\ HookCalls("eval")[1].arg.kwargs["by_epoch"] = FALSE

(***************************************************************************)
(* C9.  set_random_seed is idempotent: a call with the arguments of the    *)
(* call just before it leaves every generator and the cudnn flags as that  *)
(* call left them, so the draws that follow are the same.                  *)
(***************************************************************************)
C9_SeedIdempotent ==
    [][(lastOp.op = "set_random_seed" /\ lastOp' = lastOp) => randomState' = randomState]_vars

C9_Witness ==
    /\ repeat = 2
    /\ lastOp.op = "set_random_seed"
    /\ lastOp.deterministic
    /\ py_state = Seeded(lastOp.seed)
    /\ cudnn = [deterministic |-> TRUE, benchmark |-> FALSE]

(***************************************************************************)
(* C10.  The runner is driven through its phases once and in order:        *)
(* construction, training-hook registration, evaluation-hook registration  *)
(* (if validate), custom-hook registration, state restoration, run.        *)
(* runner.run is called at most once, after all of these, and never after  *)
(* a setup step raised.                                                    *)
(***************************************************************************)
CallRank(c) ==
    CASE c.op = "build_runner"             -> 1
      [] c.op = "register_training_hooks"  -> 2
      [] c.op = "register_hook" /\ c.site = "eval"   -> 3
      [] c.op = "register_hook" /\ c.site = "custom" -> 4
      [] c.op \in {"resume", "load_checkpoint"}      -> 5
      [] c.op = "run"                      -> 6

C10_PhasesInOrder ==
    LET restores == Len(CallsOf("resume")) + Len(CallsOf("load_checkpoint"))
    IN  /\ \A a \in 1..(Len(calls) - 1) :
              LET this == CallRank(calls[a])
                  next == CallRank(calls[a + 1])
              IN  this < next \/ (this = next /\ calls[a].site = "custom")
        /\ Len(CallsOf("run")) > 0 =>
              /\ Len(CallsOf("build_runner")) = 1
              /\ Len(CallsOf("register_training_hooks")) = 1
              /\ Len(HookCalls("eval")) = IF validate THEN 1 ELSE 0
              /\ Len(HookCalls("custom")) =
                    IF Truthy(cfg0.custom_hooks) THEN Len(cfg0.custom_hooks.items) ELSE 0
              /\ restores = IF cfg0.resume_from # "" \/ cfg0.load_from # "" THEN 1 ELSE 0
              /\ raised.at \in {"none", "run"}
        /\ pc = "done" => (Len(CallsOf("run")) = 1 /\ raised = NoException)
        /\ pc = "aborted" => raised # NoException

C10_Witness ==
    /\ pc = "done"
    /\ validate
    /\ Len(HookCalls("custom")) = 2
    /\ Len(CallsOf("resume")) = 1
    /\ calls[Len(calls)].op = "run"

====
